---- MODULE Spec2Model ----
(***************************************************************************)
(* WellSegment (well_logs/core/well_segment.py): a depth-bounded view over *)
(* one well's lazily loaded datasets and core images, with slicing, log    *)
(* column operations, core image registration and core-to-log matching.    *)
(*                                                                         *)
(* Depths are metres in the code.  Here a depth is an integer number of    *)
(* units, UnitsPerCm units to the centimetre, so that int(round(m * 100))  *)
(* of _meters_to_pixels is a real rounding (Python rounds half to even).   *)
(* An attribute that is None is the empty sequence <<>>, a loaded one is   *)
(* the one-element sequence <<value>>.  _logs is a reference into the heap *)
(* of DataFrame objects (0 is None), because copy() is shallow and         *)
(* drop_logs / rename_logs change that object in place.                    *)
(***************************************************************************)
EXTENDS Integers, Sequences, FiniteSets, TLC

\* ---------------------------------------------------------------- bounds
MaxDepth == 6
UnitsPerCm == 2
MaxSegs == 3
\* calls made in a behaviour of Spec, SpecSlice, SpecCore, SpecMatch, SpecGroup
MaxOps == 3
SliceOps == 2
CoreOps == 2
MatchOps == 2
GroupOps == 1
CropOps == 2
ParseOps == 1
\* characters in a string handed to parse_depth
MaxLen == 4
\* samples in a directory of SpecCore, gaps between the boring intervals of
\* a directory of SpecGroup
MaxSamples == 2
MaxGaps == 3

\* ---------------------------------------------------------------- state
\* disk: the well's directory (meta.json, the dataset files, the images).
\* inputs: the arguments the callers draw from and how many calls they make.
\* segs: the WellSegment objects; frames: the DataFrame objects behind _logs.
\* nops: calls made; last: the last call, its arguments and how it ended.
VARIABLES disk, inputs, segs, frames, nops, last

vars == <<disk, inputs, segs, frames, nops, last>>

None == <<>>
Some(v) == <<v>>
IsNone(o) == Len(o) = 0
Val(o) == o[1]

attrs_depth_index == <<"logs", "core_properties", "core_logs">>
attrs_fdtd_index == <<"layers", "boring_intervals", "core_lithology", "samples">>

Range(f) == {f[i] : i \in DOMAIN f}
DepthAttrs == Range(attrs_depth_index)
FdtdAttrs == Range(attrs_fdtd_index)
Depths == 0..MaxDepth
\* the bounds the callers slice at: whole and half centimetres, the ends
SliceBounds == {0, 2, 5, MaxDepth}

\* ------------------------------------------------------- pure helpers
Max(a, b) == IF a >= b THEN a ELSE b
Min(a, b) == IF a <= b THEN a ELSE b

\* Python 3 round() of the rational x / k: to nearest, ties to even.
PyRound(x, k) ==
  LET q == x \div k
      r == x % k
  IN  IF 2 * r < k THEN q
      ELSE IF 2 * r > k THEN q + 1
      ELSE IF q % 2 = 0 THEN q ELSE q + 1

\* seq[start:stop] of Python / numpy, start and stop any integers.
PyIndex(n, i) == IF i < 0 THEN Max(0, n + i) ELSE Min(i, n)
PySlice(seq, start, stop) ==
  SubSeq(seq, PyIndex(Len(seq), start) + 1, PyIndex(Len(seq), stop))

\* int(round(meters * 100)) * pixels_per_cm, meters given in units.
meters_to_pixels(ppc, units) == PyRound(units, UnitsPerCm) * ppc

Ok(v) == [err |-> "none", val |-> v]
Err(e) == [err |-> e, val |-> <<>>]

\* ------------------------------------------------- depth-indexed filter
MonoInc(rows) == \A i \in 1..(Len(rows) - 1) : rows[i].depth <= rows[i + 1].depth
MonoDec(rows) == \A i \in 1..(Len(rows) - 1) : rows[i].depth >= rows[i + 1].depth
Occ(rows, d) == {i \in DOMAIN rows : rows[i].depth = d}
Contig(P) == \A i \in P, j \in P : \A k \in i..j : k \in P
SetMin(P) == CHOOSE i \in P : \A j \in P : i <= j
SetMax(P) == CHOOSE i \in P : \A j \in P : i >= j

\* df[depth_from:depth_to] on a float DEPTH index is a label slice, both
\* ends included.  On a monotonic index the bounds are found by
\* searchsorted; otherwise each bound has to be a label of the index whose
\* occurrences are contiguous, or pandas raises KeyError.
filter_depth_df(rows, depth_from, depth_to) ==
  LET lt(d) == Cardinality({i \in DOMAIN rows : rows[i].depth < d})
      le(d) == Cardinality({i \in DOMAIN rows : rows[i].depth <= d})
      gt(d) == Cardinality({i \in DOMAIN rows : rows[i].depth > d})
      ge(d) == Cardinality({i \in DOMAIN rows : rows[i].depth >= d})
      pa == Occ(rows, depth_from)
      pb == Occ(rows, depth_to)
  IN  IF MonoInc(rows)
        THEN Ok(SubSeq(rows, lt(depth_from) + 1, le(depth_to)))
      ELSE IF MonoDec(rows)
        THEN Ok(SubSeq(rows, gt(depth_from) + 1, ge(depth_to)))
      ELSE IF pa = {} \/ pb = {} \/ ~Contig(pa) \/ ~Contig(pb)
        THEN Err("KeyError")
      ELSE Ok(SubSeq(rows, SetMin(pa), SetMax(pb)))

\* ---------------------------------------------- interval-indexed filter
\* zip(*df.index.values) of an empty frame yields nothing to unpack.
filter_fdtd_df(rows, depth_from, depth_to) ==
  IF Len(rows) = 0
    THEN Err("ValueError")
    ELSE Ok(SelectSeq(rows, LAMBDA r : r.from < depth_to /\ depth_from < r.to))

\* ------------------------------------------------------------ the disk
\* A row of a depth-indexed file; orig is the depth the file gives it.
Row(d) == [orig |-> d, depth |-> d]
Iv(f, t) == [from |-> f, to |-> t]
\* A row of samples.*: its interval and the SAMPLE column (an image name
\* with or without an extension).
Sample(f, t, id, ext) == [from |-> f, to |-> t, id |-> id, ext |-> ext]
File(ext, cols, rows) == [ext |-> ext, cols |-> cols, rows |-> rows]

DiskBase ==
  [meta |-> [depth_from |-> 0, depth_to |-> MaxDepth],
   logs |-> <<File("las", <<"GK", "NK">>, [i \in 1..(MaxDepth + 1) |-> Row(i - 1)])>>,
   core_logs |-> <<File("csv", <<"GK">>, <<Row(1), Row(2), Row(4), Row(5)>>)>>,
   core_properties |-> <<File("csv", <<"PORO">>, <<Row(2), Row(5)>>)>>,
   layers |-> <<File("csv", <<"LAYER">>, <<Iv(0, 3), Iv(3, MaxDepth)>>)>>,
   boring_intervals |-> <<File("csv", <<"RECOVERY">>, <<Iv(0, 2), Iv(3, 5)>>)>>,
   core_lithology |-> <<File("csv", <<"ROCK">>, <<Iv(1, 2), Iv(2, 3), Iv(4, 5)>>)>>,
   samples |-> <<File("feather", <<"SAMPLE">>,
                      <<Sample(0, 2, 1, TRUE), Sample(2, 4, 2, TRUE)>>)>>,
   samples_dl |-> {1, 2},
   samples_uv |-> {1, 2}]

\* ------------------------------------------------------------ segments
\* WellSegment.__init__: bounds from meta.json, every dataset unloaded.
NewSegment(meta, core_width, pixels_per_cm) ==
  [depth_from |-> meta.depth_from, depth_to |-> meta.depth_to,
   core_width |-> core_width, pixels_per_cm |-> pixels_per_cm,
   logs |-> 0,
   core_properties |-> None, core_logs |-> None,
   layers |-> None, boring_intervals |-> None, core_lithology |-> None,
   samples |-> None,
   core_dl |-> None, core_uv |-> None,
   boring_intervals_deltas |-> None, core_lithology_deltas |-> None]

\* A world is the heap of the program: the segments, the DataFrame objects
\* behind _logs, and the exception in flight, if any.
World(sg, fr, e) == [segs |-> sg, frames |-> fr, err |-> e]
Raise(w, e) == [w EXCEPT !.err = e]
Failed(w) == w.err # "none"

\* getattr(seg, "_" + attr) as a value: None, or the frame / rows.
Cached(w, s, attr) ==
  IF attr = "logs"
    THEN IF w.segs[s].logs = 0 THEN None ELSE Some(w.frames[w.segs[s].logs])
    ELSE w.segs[s][attr]

\* setattr(seg, "_" + attr, value): _logs is bound to a new DataFrame object.
SetAttr(w, s, attr, value) ==
  IF attr = "logs"
    THEN [w EXCEPT !.frames = Append(@, value),
                   !.segs[s].logs = Len(w.frames) + 1]
    ELSE [w EXCEPT !.segs[s][attr] = Some(value)]

\* _get_full_name: exactly one file called name.* has to exist.
get_full_name(files) ==
  IF Len(files) = 0 THEN Err("FileNotFoundError")
  ELSE IF Len(files) > 1 THEN Err("OSError")
  ELSE Ok(files[1])

\* _load_df: dispatch on the extension.
load_df(file) ==
  IF file.ext \in {"las", "csv", "feather"} THEN Ok(file) ELSE Err("ValueError")

\* The filter of the dataset's kind: _filter_depth_df for attrs_depth_index,
\* _filter_fdtd_df for attrs_fdtd_index.
filter_df(attr, rows, depth_from, depth_to) ==
  IF attr \in DepthAttrs
    THEN filter_depth_df(rows, depth_from, depth_to)
    ELSE filter_fdtd_df(rows, depth_from, depth_to)

\* A depth-indexed dataset is a frame (columns and rows), an
\* interval-indexed one is the sequence of its rows.
Rows(attr, value) == IF attr \in DepthAttrs THEN value.rows ELSE value
WithRows(attr, value, rows) ==
  IF attr \in DepthAttrs THEN [cols |-> value.cols, rows |-> rows] ELSE rows

\* setattr(seg, "_" + attr, filtered), unless the filter has raised.
store_filtered(w, s, attr, value, filtered) ==
  IF filtered.err # "none" THEN Raise(w, filtered.err)
  ELSE SetAttr(w, s, attr, WithRows(attr, value, filtered.val))

\* _load_depth_df / _load_fdtd_df on a file that _load_df has read.
load_filtered(w, s, attr, df) ==
  IF df.err # "none" THEN Raise(w, df.err)
  ELSE store_filtered(w, s, attr, df.val,
                      filter_df(attr, df.val.rows,
                                w.segs[s].depth_from, w.segs[s].depth_to))

load_named(w, s, attr, name) ==
  IF name.err # "none" THEN Raise(w, name.err)
  ELSE load_filtered(w, s, attr, load_df(name.val))

\* load_<attr>, as add_attr_loaders builds it: resolve the file, load it,
\* set the index, filter to the segment's bounds and cache the result.
load(w, s, attr) ==
  IF Failed(w) THEN w ELSE load_named(w, s, attr, get_full_name(disk[attr]))

\* The property of add_attr_properties: load on first access only.
prop(w, s, attr) ==
  IF Failed(w) THEN w
  ELSE IF IsNone(Cached(w, s, attr)) THEN load(w, s, attr)
  ELSE w

\* copy(self): a shallow copy; the new object is the last segment.
copy(w, s) == [w EXCEPT !.segs = Append(@, w.segs[s])]

\* ------------------------------------------------------------- slicing
\* One turn of the loop of __getitem__ over the attributes of res (segment
\* r): a loaded dataset is filtered to the new bounds, a None one is left.
filter_attr(w, r, attr, cur) ==
  IF IsNone(cur) THEN w
  ELSE store_filtered(w, r, attr, Val(cur),
                      filter_df(attr, Rows(attr, Val(cur)),
                                w.segs[r].depth_from, w.segs[r].depth_to))

RECURSIVE filter_attrs(_, _, _, _)
filter_attrs(w, r, attrs, i) ==
  IF i > Len(attrs) \/ Failed(w) THEN w
  ELSE filter_attrs(filter_attr(w, r, attrs[i], Cached(w, r, attrs[i])), r, attrs, i + 1)

crop(buf, start_pos, stop_pos) ==
  [buf EXCEPT !.rows = PySlice(@, start_pos, stop_pos)]

\* The end of __getitem__: images that are both built are cropped by pixel
\* offsets from the bounds of self, at the resolution of self.
crop_images(w, r, self) ==
  IF ~IsNone(w.segs[r].core_dl) /\ ~IsNone(w.segs[r].core_uv)
    THEN [w EXCEPT
            !.segs[r].core_dl =
               Some(crop(Val(@),
                         meters_to_pixels(self.pixels_per_cm, w.segs[r].depth_from - self.depth_from),
                         meters_to_pixels(self.pixels_per_cm, w.segs[r].depth_to - self.depth_from))),
            !.segs[r].core_uv =
               Some(crop(Val(@),
                         meters_to_pixels(self.pixels_per_cm, w.segs[r].depth_from - self.depth_from),
                         meters_to_pixels(self.pixels_per_cm, w.segs[r].depth_to - self.depth_from)))]
    ELSE w

\* res = self.copy(); res.depth_from, res.depth_to = key.start, key.stop
rebound(w, r, start, stop) ==
  [w EXCEPT !.segs[r].depth_from = start, !.segs[r].depth_to = stop]

\* An exception leaves no new segment: the world is w with the error.
getitem_end(w, s, filtered) ==
  IF Failed(filtered) THEN Raise(w, filtered.err)
  ELSE crop_images(filtered, Len(filtered.segs), w.segs[s])

\* getitem with a range check on the bounds before anything else.
getitem_checked(w, s, start, stop) ==
  IF Failed(w) THEN w
  ELSE IF ~(w.segs[s].depth_from <= start /\ start <= stop /\ stop <= w.segs[s].depth_to)
    THEN Raise(w, "ValueError")
  ELSE getitem_end(w, s,
                   filter_attrs(rebound(copy(w, s), Len(w.segs) + 1, start, stop),
                                Len(w.segs) + 1,
                                attrs_depth_index \o attrs_fdtd_index, 1))

\* __getitem__ with a slice key: self[start:stop].  The result is the last
\* segment of the world returned.
getitem(w, s, start, stop) ==
  IF Failed(w) THEN w
  ELSE getitem_end(w, s,
                   filter_attrs(rebound(copy(w, s), Len(w.segs) + 1, start, stop),
                                Len(w.segs) + 1,
                                attrs_depth_index \o attrs_fdtd_index, 1))

\* --------------------------------------------------------- core images
\* A pixel row of a buffer: row k of the image img of one modality resized
\* to height h, or a row of NaN.
NanRow == [img |-> 0, mod |-> "nan", h |-> 0, k |-> 0]
full(height) == [i \in 1..height |-> NanRow]
\* np.array(img.resize((width, height), resample=LANCZOS))
resize(img, mod, height) ==
  [i \in 1..height |-> [img |-> img, mod |-> mod, h |-> height, k |-> i]]

\* _load_image: None unless the file exists.
load_image(path, present) == IF path \in present THEN Some(path) ELSE None

\* _match_samples.  The first test asks twice for dl_img, so a missing
\* uv_img reaches uv_img.resize there, and a missing dl_img falls to the
\* else branch, which resizes uv_img too.  PIL refuses an empty size.
match_samples(dl_img, uv_img, height, width) ==
  IF ~IsNone(dl_img)
    THEN IF height <= 0 \/ width <= 0 THEN Err("ValueError")
         ELSE IF IsNone(uv_img) THEN Err("AttributeError")
         ELSE Ok([dl |-> resize(Val(dl_img), "dl", height),
                  uv |-> resize(Val(uv_img), "uv", height)])
    ELSE IF IsNone(uv_img) THEN Err("AttributeError")
         ELSE IF height <= 0 \/ width <= 0 THEN Err("ValueError")
         ELSE Ok([dl |-> full(height), uv |-> resize(Val(uv_img), "uv", height)])

\* buf[pos:pos + len(img)] = img of numpy: the target rows are clipped to
\* the buffer, and the value has to fit them (or be one row, broadcast).
paste_rows(rows, lo, hi, img) ==
  IF hi - lo = Len(img)
    THEN Ok([i \in DOMAIN rows |-> IF i > lo /\ i <= hi THEN img[i - lo] ELSE rows[i]])
  ELSE IF Len(img) = 1
    THEN Ok([i \in DOMAIN rows |-> IF i > lo /\ i <= hi THEN img[1] ELSE rows[i]])
  ELSE Err("ValueError")
paste(rows, pos, img) ==
  paste_rows(rows, PyIndex(Len(rows), pos),
             Max(PyIndex(Len(rows), pos), PyIndex(Len(rows), pos + Len(img))), img)

sample_height(sg, sample) == meters_to_pixels(sg.pixels_per_cm, sample.to - sample.from)
top_crop(sg, sample) ==
  Max(0, meters_to_pixels(sg.pixels_per_cm, sg.depth_from - sample.from))
bottom_crop(sg, sample) ==
  sample_height(sg, sample)
    - Max(0, meters_to_pixels(sg.pixels_per_cm, sample.to - sg.depth_to))
insert_pos(sg, sample) ==
  Max(0, meters_to_pixels(sg.pixels_per_cm, sample.from - sg.depth_from))

\* The loop of load_core over the rows of samples.  st holds the two
\* buffers and the local uv_path.
core_fail(st, e) == [st EXCEPT !.err = e]

core_pasted(st, dl, uv) ==
  IF dl.err # "none" THEN core_fail(st, dl.err)
  ELSE IF uv.err # "none" THEN core_fail(st, uv.err)
  ELSE [st EXCEPT !.dl = dl.val, !.uv = uv.val]

core_matched(sg, st, sample, m) ==
  IF m.err # "none" THEN core_fail(st, m.err)
  ELSE core_pasted(st,
         paste(st.dl, insert_pos(sg, sample),
               PySlice(m.val.dl, top_crop(sg, sample), bottom_crop(sg, sample))),
         paste(st.uv, insert_pos(sg, sample),
               PySlice(m.val.uv, top_crop(sg, sample), bottom_crop(sg, sample))))

core_images(sg, st, sample, dl_path, uv_path) ==
  IF IsNone(uv_path) THEN core_fail(st, "UnboundLocalError")
  ELSE core_matched(sg, [st EXCEPT !.uv_path = uv_path], sample,
                    match_samples(load_image(dl_path, disk.samples_dl),
                                  load_image(Val(uv_path), disk.samples_uv),
                                  sample_height(sg, sample),
                                  sg.core_width * sg.pixels_per_cm))

\* The paths of a sample's images.  Only the branch for a name with an
\* extension assigns uv_path; for a name without one the branch resolves
\* dl_path twice, so uv_path is unbound in the first turn of the loop and
\* left over from the sample before in a later turn.
core_step(sg, st, sample) ==
  IF sample.ext THEN core_images(sg, st, sample, sample.id, Some(sample.id))
  ELSE IF sample.id \notin disk.samples_dl THEN core_fail(st, "FileNotFoundError")
  ELSE core_images(sg, st, sample, sample.id, st.uv_path)

RECURSIVE core_loop(_, _, _, _)
core_loop(sg, st, samples, i) ==
  IF i > Len(samples) \/ st.err # "none" THEN st
  ELSE core_loop(sg, core_step(sg, st, samples[i]), samples, i + 1)

Buffer(width, rows) == [w |-> width, rows |-> rows, div |-> 255]

\* self._core_dl = core_dl / 255; self._core_uv = core_uv / 255
core_store(w, s, st) ==
  IF st.err # "none" THEN Raise(w, st.err)
  ELSE [w EXCEPT
          !.segs[s].core_dl =
             Some(Buffer(w.segs[s].core_width * w.segs[s].pixels_per_cm, st.dl)),
          !.segs[s].core_uv =
             Some(Buffer(w.segs[s].core_width * w.segs[s].pixels_per_cm, st.uv))]

core_build(w, s, height) ==
  IF Failed(w) THEN w
  ELSE core_store(w, s,
                  core_loop(w.segs[s],
                            [dl |-> full(height), uv |-> full(height),
                             uv_path |-> None, err |-> "none"],
                            Val(w.segs[s].samples), 1))

\* np.full((height, width, 3), ...) before the first read of self.samples
core_alloc(w, s, height) ==
  IF height < 0 THEN Raise(w, "ValueError")
  ELSE core_build(prop(w, s, "samples"), s, height)

\* self.core_width, self.pixels_per_cm: an argument of 0 stands for None.
core_args(w, s, core_width, pixels_per_cm) ==
  [w EXCEPT
     !.segs[s].core_width = IF core_width # 0 THEN core_width ELSE @,
     !.segs[s].pixels_per_cm = IF pixels_per_cm # 0 THEN pixels_per_cm ELSE @]

segment_height(w, s) ==
  core_alloc(w, s, meters_to_pixels(w.segs[s].pixels_per_cm,
                                    w.segs[s].depth_to - w.segs[s].depth_from))

\* load_core(core_width, pixels_per_cm)
load_core(w, s, core_width, pixels_per_cm) ==
  IF Failed(w) THEN w
  ELSE segment_height(core_args(w, s, core_width, pixels_per_cm), s)

\* ------------------------------------------------------- log columns
Renamed(cols, rename_dict) ==
  [i \in DOMAIN cols |->
     IF cols[i] \in DOMAIN rename_dict THEN rename_dict[cols[i]] ELSE cols[i]]

\* res._logs.drop(mnemonics, axis=1, inplace=True) on the copy res, the last
\* segment of w1: the DataFrame object is the one self refers to.
drop_columns(w, w1, ref, mnemonics) ==
  IF ref = 0 THEN Raise(w, "AttributeError")
  ELSE IF \E m \in Range(mnemonics) : m \notin Range(w1.frames[ref].cols)
    THEN Raise(w, "KeyError")
  ELSE [w1 EXCEPT !.frames[ref].cols =
                     SelectSeq(@, LAMBDA c : c \notin Range(mnemonics))]

\* drop_logs(mnemonics)
drop_logs(w, s, mnemonics) ==
  IF Failed(w) THEN w
  ELSE drop_columns(w, copy(w, s), w.segs[s].logs, mnemonics)

\* res._logs = res.logs[mnemonics]: res.logs is loaded on first access, and
\* the selection is a new DataFrame object with the columns asked for.
keep_columns(w, w1, r, mnemonics) ==
  IF Failed(w1) THEN Raise(w, w1.err)
  ELSE IF \E m \in Range(mnemonics) : m \notin Range(w1.frames[w1.segs[r].logs].cols)
    THEN Raise(w, "KeyError")
  ELSE SetAttr(w1, r, "logs", [w1.frames[w1.segs[r].logs] EXCEPT !.cols = mnemonics])

\* keep_logs(mnemonics)
keep_logs(w, s, mnemonics) ==
  IF Failed(w) THEN w
  ELSE keep_columns(w, prop(copy(w, s), Len(w.segs) + 1, "logs"),
                    Len(w.segs) + 1, mnemonics)

rename_columns(w, ref, rename_dict) ==
  IF Failed(w) THEN w
  ELSE [w EXCEPT !.frames[ref].cols = Renamed(@, rename_dict)]

\* rename_logs(rename_dict): self.logs.columns = [...], on self.
rename_loaded(w, s, rename_dict) ==
  IF Failed(w) THEN w ELSE rename_columns(w, w.segs[s].logs, rename_dict)
rename_logs(w, s, rename_dict) == rename_loaded(prop(w, s, "logs"), s, rename_dict)

\* _core_chunks reads samples['DEPTH_FROM'], but the loader has made
\* DEPTH_FROM and DEPTH_TO the index of samples, so the column lookup
\* raises KeyError before any gap is looked at.
core_chunks(w, s) == IF Failed(w) THEN w ELSE Raise(w, "KeyError")

\* split_by_core
split_by_core(w, s) == core_chunks(prop(w, s, "samples"), s)

\* ------------------------------------------------------------ matching
\* select_contigious_intervals(intervals, threshold): the intervals in
\* order, cut into runs wherever the gap from one interval's end to the
\* next one's start is greater than the threshold.
RECURSIVE contigious_loop(_, _, _, _)
contigious_loop(intervals, threshold, i, acc) ==
  IF i > Len(intervals) THEN acc
  ELSE IF i = 1 \/ intervals[i].from - intervals[i - 1].to > threshold
    THEN contigious_loop(intervals, threshold, i + 1, Append(acc, <<intervals[i]>>))
    ELSE contigious_loop(intervals, threshold, i + 1,
                         [acc EXCEPT ![Len(acc)] = Append(@, intervals[i])])
select_contigious_intervals(intervals, threshold) ==
  contigious_loop(intervals, threshold, 1, <<>>)

\* The shifts the grid search of match_segment chooses among: the grid from
\* delta_from to delta_to, no shift greater than max_shift.
DeltaGrid(max_shift, delta_from, delta_to, delta_step) ==
  {d \in delta_from..delta_to :
     /\ (d - delta_from) % delta_step = 0
     /\ d <= max_shift /\ -d <= max_shift}

WithDelta(rows, delta) ==
  [i \in DOMAIN rows |-> [from |-> rows[i].from, to |-> rows[i].to, delta |-> delta]]

\* match_segment(segment, lithology_intervals, ...): the group and the
\* lithology intervals inside the group's span, each with the shift the
\* search has chosen for the group.  The logs' values are not modelled, so
\* the shift of best fit is an argument: any shift of the grid.
match_segment(segment, lithology_intervals, delta) ==
  [segment |-> WithDelta(segment, delta),
   lithology |-> WithDelta(SelectSeq(lithology_intervals,
                                     LAMBDA r : /\ r.from >= segment[1].from
                                                /\ r.to <= segment[Len(segment)].to),
                           delta)]

RECURSIVE Flatten(_, _)
Flatten(seqs, i) == IF i > Len(seqs) THEN <<>> ELSE seqs[i] \o Flatten(seqs, i + 1)

\* The threshold as max_shift alone.
group_threshold_single(max_shift) == max_shift
\* The threshold match_core_logs hands to select_contigious_intervals.
group_threshold(max_shift) == 2 * max_shift

\* The rows of the merge that pass the filter for one row of the dataset,
\* DEPTH moved by DELTA: one for every record whose [DEPTH_FROM, DEPTH_TO)
\* holds the row's depth.
shifted(row, hits) ==
  [j \in DOMAIN hits |-> [row EXCEPT !.depth = @ + hits[j].delta]]
\* merge_row as a left join: a row no record covers is kept as it is.
merge_row_left(row, deltas) ==
  IF \A j \in DOMAIN deltas : ~(row.depth >= deltas[j].from /\ row.depth < deltas[j].to)
    THEN <<row>>
    ELSE shifted(row, SelectSeq(deltas, LAMBDA d : row.depth >= d.from /\ row.depth < d.to))
merge_row(row, deltas) ==
  shifted(row, SelectSeq(deltas, LAMBDA d : row.depth >= d.from /\ row.depth < d.to))

\* pd.merge(attr_df, core_lithology_deltas, on="key"), the filter and
\* DEPTH += DELTA, in the order of the rows of attr_df.
merge_rows(rows, deltas) ==
  Flatten([i \in DOMAIN rows |-> merge_row(rows[i], deltas)], 1)

apply_attr(w, s, attr) ==
  IF Failed(w) THEN w
  ELSE SetAttr(w, s, attr,
               [Val(w.segs[s][attr]) EXCEPT
                  !.rows = merge_rows(@, Val(w.segs[s].core_lithology_deltas))])

\* _apply_matching: core_logs, then core_properties, each loaded on first
\* access.
apply_matching(w, s) ==
  apply_attr(prop(apply_attr(prop(w, s, "core_logs"), s, "core_logs"),
                  s, "core_properties"),
             s, "core_properties")

\* self.<attr>[mnemonic]
column(w, s, attr, mnemonic) ==
  IF Failed(w) THEN w
  ELSE IF mnemonic \notin Range(Val(Cached(w, s, attr)).cols) THEN Raise(w, "KeyError")
  ELSE w

\* match_core_logs up to the loop over the groups: the four datasets it
\* reads are loaded on first access, and the mnemonic has to be a column of
\* logs and of core_logs.
match_reads(w, s, mnemonic) ==
  prop(prop(column(prop(column(prop(w, s, "logs"), s, "logs", mnemonic),
                        s, "core_logs"),
                   s, "core_logs", mnemonic),
            s, "core_lithology"),
       s, "boring_intervals")

match_groups(w, s, max_shift) ==
  IF Failed(w) THEN <<>>
  ELSE select_contigious_intervals(Val(w.segs[s].boring_intervals),
                                   group_threshold(max_shift))

\* pd.concat(segments), pd.concat(lithology_segments)
match_store(w, s, matched) ==
  [w EXCEPT
     !.segs[s].boring_intervals_deltas =
        Some(Flatten([g \in DOMAIN matched |-> matched[g].segment], 1)),
     !.segs[s].core_lithology_deltas =
        Some(Flatten([g \in DOMAIN matched |-> matched[g].lithology], 1))]

\* match_core_logs with a guard: a segment that holds the shifts of an
\* earlier match is refused.
match_core_logs_guarded(w, s, contigious_segments, best) ==
  IF Failed(w) THEN w
  ELSE IF ~IsNone(w.segs[s].core_lithology_deltas) THEN Raise(w, "ValueError")
  ELSE IF Len(contigious_segments) = 0 THEN Raise(w, "ValueError")
  ELSE apply_matching(
         match_store(w, s,
                     [g \in DOMAIN contigious_segments |->
                        match_segment(contigious_segments[g],
                                      Val(w.segs[s].core_lithology), best[g])]),
         s)

\* match_core_logs from the loop over the groups on: w is the world after
\* the reads, best[g] the shift of best fit of group g.  pd.concat of no
\* group raises ValueError.
match_core_logs(w, s, contigious_segments, best) ==
  IF Failed(w) THEN w
  ELSE IF Len(contigious_segments) = 0 THEN Raise(w, "ValueError")
  ELSE apply_matching(
         match_store(w, s,
                     [g \in DOMAIN contigious_segments |->
                        match_segment(contigious_segments[g],
                                      Val(w.segs[s].core_lithology), best[g])]),
         s)

\* ---------------------------------------------------------- parse_depth
\* A str is the sequence of its characters.  A float is an IEEE double:
\* sign, and for a value other than zero the 53 bits m of the significand,
\* first bit 1, and the place p of the binary point, the value being
\* 0.m * 2^p.  Bit sequences are written with the first bit first.
Digits == {"0", "1", "2", "3", "4", "5", "6", "7", "8", "9"}
Letters ==
  {"a", "b", "c", "d", "e", "f", "g", "h", "i", "j", "k", "l", "m",
   "n", "o", "p", "q", "r", "s", "t", "u", "v", "w", "x", "y", "z",
   "A", "B", "C", "D", "E", "F", "G", "H", "I", "J", "K", "L", "M",
   "N", "O", "P", "Q", "R", "S", "T", "U", "V", "W", "X", "Y", "Z"}
At(str, i) == IF i >= 1 /\ i <= Len(str) THEN str[i] ELSE ""

Zeros(k) == [i \in 1..k |-> 0]
RECURSIVE Bin(_)
Bin(n) == IF n = 0 THEN <<>> ELSE Append(Bin(n \div 2), n % 2)
RECURSIVE BitsToInt(_)
BitsToInt(b) ==
  IF Len(b) = 0 THEN 0 ELSE 2 * BitsToInt(SubSeq(b, 1, Len(b) - 1)) + b[Len(b)]
RECURSIVE StripRight(_)
StripRight(b) ==
  IF Len(b) > 0 /\ b[Len(b)] = 0 THEN StripRight(SubSeq(b, 1, Len(b) - 1)) ELSE b

\* x + y of two bit sequences of one length n.  The carry into bit i comes
\* from a bit j after it where both have 1, passed on by every bit between
\* the two, where one of them has 1.
Carry(x, y, i) ==
  IF \E j \in (i + 1)..Len(x) :
       /\ x[j] + y[j] = 2
       /\ \A k \in (i + 1)..(j - 1) : x[k] + y[k] = 1
    THEN 1 ELSE 0
AddCarry(x, y) ==
  (IF Carry(x, y, 0) = 1 THEN <<1>> ELSE <<>>)
    \o [i \in 1..Len(x) |-> (x[i] + y[i] + Carry(x, y, i)) % 2]
BitAdd(x, y) ==
  AddCarry(Zeros(Max(Len(x), Len(y)) - Len(x)) \o x,
           Zeros(Max(Len(x), Len(y)) - Len(y)) \o y)
\* a * b, the bits of b taken in turn; acc holds the product of a and the
\* first i - 1 bits of b, which has no more bits than the two together.
RECURSIVE BitMul(_, _, _, _)
BitMul(a, b, i, acc) ==
  IF Len(acc) > Len(a) + Len(b) \/ i > Len(b) THEN acc
  ELSE BitMul(a, b, i + 1, BitAdd(Append(acc, 0), IF b[i] = 1 THEN a ELSE <<>>))

\* Rounding to 53 bits, to nearest, ties to even: bits starts with 1, and
\* sticky tells that the value has bits beyond those given.
round_half_even(bits, sticky, p) ==
  IF Len(bits) <= 53 THEN [m |-> bits \o Zeros(53 - Len(bits)), p |-> p]
  ELSE IF ~(/\ bits[54] = 1
            /\ \/ sticky
               \/ bits[53] = 1
               \/ \E i \in 55..Len(bits) : bits[i] = 1)
    THEN [m |-> SubSeq(bits, 1, 53), p |-> p]
  ELSE IF \A i \in 1..53 : bits[i] = 1
    THEN [m |-> <<1>> \o Zeros(52), p |-> p + 1]
  ELSE [m |-> BitAdd(SubSeq(bits, 1, 53), <<1>>), p |-> p]

\* k bits of the binary expansion of r / d, 0 <= r < d, and what is left
RECURSIVE FracBits(_, _, _, _)
FracBits(r, d, k, acc) ==
  IF k = 0 THEN [bits |-> acc, rem |-> r]
  ELSE FracBits((2 * r) % d, d, k - 1, Append(acc, (2 * r) \div d))
RECURSIVE LeadZeros(_, _)
LeadZeros(r, d) == IF 2 * r >= d THEN 0 ELSE 1 + LeadZeros(2 * r, d)

\* The double nearest to n / d, n > 0: float() of a decimal literal is
\* correctly rounded.
float_rounded(ibits, z, fb) ==
  round_half_even(ibits \o SubSeq(fb.bits, z + 1, Len(fb.bits)), fb.rem # 0,
                  Len(ibits) - z)
float_of(n, d) ==
  IF n \div d > 0
    THEN float_rounded(Bin(n \div d), 0,
                       FracBits(n % d, d, 54 - Len(Bin(n \div d)), <<>>))
    ELSE float_rounded(<<>>, LeadZeros(n % d, d),
                       FracBits(n % d, d, LeadZeros(n % d, d) + 54, <<>>))

\* x * y of two doubles other than zero
float_product(product, a, b, pa, pb) ==
  round_half_even(product, FALSE, Len(product) + pa - Len(a) + pb - Len(b))
float_mul(x, y) ==
  float_product(BitMul(StripRight(x.m), StripRight(y.m), 1, <<>>),
                StripRight(x.m), StripRight(y.m), x.p, y.p)
\* float.is_integer and int(float)
is_integer(x) == x.p >= 53 \/ (x.p >= 1 /\ \A i \in (x.p + 1)..53 : x.m[i] = 0)
int_of(x) == BitsToInt(SubSeq(x.m, 1, x.p))

\* The regular expression of parse_depth, matched against the whole string:
\* [-+]?  (\d+(\.\d*)? | \.\d+)  ([eE][-+]?\d+)?  [a-zA-Z]+
\* Every quantifier takes all it can, and no shorter choice lets the rest
\* match, because the units are letters only.
RECURSIVE DigitsEnd(_, _)
DigitsEnd(str, i) == IF At(str, i) \in Digits THEN DigitsEnd(str, i + 1) ELSE i
SignEnd(str, i) == IF At(str, i) \in {"-", "+"} THEN i + 1 ELSE i
\* the place after the mantissa that starts at i, or 0 when there is none
MantissaEnd(str, i) ==
  IF DigitsEnd(str, i) > i
    THEN IF At(str, DigitsEnd(str, i)) = "."
           THEN DigitsEnd(str, DigitsEnd(str, i) + 1)
           ELSE DigitsEnd(str, i)
  ELSE IF At(str, i) = "." /\ DigitsEnd(str, i + 1) > i + 1
    THEN DigitsEnd(str, i + 1)
  ELSE 0
\* the place after the exponent that starts at i, or i when there is none
ExponentEnd(str, i) ==
  IF At(str, i) \in {"e", "E"}
       /\ DigitsEnd(str, SignEnd(str, i + 1)) > SignEnd(str, i + 1)
    THEN DigitsEnd(str, SignEnd(str, i + 1))
    ELSE i
RECURSIVE DigitsToInt(_)
DigitsToInt(ds) ==
  IF Len(ds) = 0 THEN 0
  ELSE 10 * DigitsToInt(SubSeq(ds, 1, Len(ds) - 1))
         + (CHOOSE v \in 0..9 : ToString(v) = ds[Len(ds)])
\* the groups of a match whose mantissa ends before me and whose exponent
\* ends before ee: the sign, the digits, how many of them follow the point,
\* the exponent and the units
groupdict(str, ms, me, ee) ==
  [neg |-> At(str, 1) = "-",
   digits |-> DigitsToInt(SelectSeq(SubSeq(str, ms, me - 1), LAMBDA c : c \in Digits)),
   scale |-> IF \E i \in ms..(me - 1) : str[i] = "."
               THEN me - 1 - (CHOOSE i \in ms..(me - 1) : str[i] = ".")
               ELSE 0,
   exp |-> IF ee = me THEN 0
           ELSE (IF At(str, me + 1) = "-" THEN -1 ELSE 1)
                  * DigitsToInt(SubSeq(str, SignEnd(str, me + 1), ee - 1)),
   units |-> SubSeq(str, ee, Len(str))]
fullmatch_units(str, ms, me, ee) ==
  IF ee <= Len(str) /\ \A i \in ee..Len(str) : str[i] \in Letters
    THEN Some(groupdict(str, ms, me, ee)) ELSE None
fullmatch(str) ==
  IF MantissaEnd(str, SignEnd(str, 1)) = 0 THEN None
  ELSE fullmatch_units(str, SignEnd(str, 1), MantissaEnd(str, SignEnd(str, 1)),
                       ExponentEnd(str, MantissaEnd(str, SignEnd(str, 1))))

\* UNIT_REGISTRY(units).to("cm").magnitude for the units of length written
\* with the letters in use: the ratio and the double pint returns.  For
\* any other name the registry raises (UndefinedUnitError,
\* DimensionalityError).
to_cm(units) ==
  IF units = <<"m">> THEN Some([num |-> 100, den |-> 1])
  ELSE IF units = <<"c", "m">> THEN Some([num |-> 1, den |-> 1])
  ELSE IF units = <<"m", "m">> THEN Some([num |-> 1, den |-> 10])
  ELSE IF units = <<"k", "m">> THEN Some([num |-> 100000, den |-> 1])
  ELSE None

\* float(match.group("value")) as the ratio of two naturals, sign apart
value_num(g) == g.digits * 10 ^ Max(0, g.exp - g.scale)
value_den(g) == 10 ^ Max(0, g.scale - g.exp)

\* A value of Python: an int, a float or anything else.
PyInt(v) == [type |-> "int", val |-> v]
PyFloat == [type |-> "float", val |-> 0]

\* parse_depth from the test of the type on
parse_checked(depth, check_positive) ==
  IF depth.type # "int" THEN Err("ValueError")
  ELSE IF check_positive /\ depth.val <= 0 THEN Err("ValueError")
  ELSE Ok(depth)
\* depth = float(value) * magnitude; if depth.is_integer(): depth = int(depth)
parse_product(neg, x, check_positive) ==
  parse_checked(IF is_integer(x) THEN PyInt((IF neg THEN -1 ELSE 1) * int_of(x))
                ELSE PyFloat,
                check_positive)
parse_scaled(g, factor, check_positive) ==
  IF IsNone(factor) THEN Err("PintError")
  ELSE IF g.digits = 0 THEN parse_checked(PyInt(0), check_positive)
  ELSE parse_product(g.neg,
                     float_mul(float_of(value_num(g), value_den(g)),
                               float_of(Val(factor).num, Val(factor).den)),
                     check_positive)
\* parse_depth(depth, check_positive)
parse_depth(depth, check_positive) ==
  IF depth.type # "str" THEN parse_checked(depth, check_positive)
  ELSE IF IsNone(fullmatch(depth.val)) THEN Err("ValueError")
  ELSE parse_scaled(Val(fullmatch(depth.val)),
                    to_cm(Val(fullmatch(depth.val)).units), check_positive)

\* ------------------------------------------------------ object identity
\* DataFrame objects no segment refers to are dropped and the others are
\* numbered in the order the segments refer to them.
RECURSIVE RefSeq(_, _, _)
RefSeq(sg, i, acc) ==
  IF i > Len(sg) THEN acc
  ELSE RefSeq(sg, i + 1,
              IF sg[i].logs = 0 \/ sg[i].logs \in Range(acc)
                THEN acc ELSE Append(acc, sg[i].logs))
Pos(seq, x) == CHOOSE i \in DOMAIN seq : seq[i] = x
Renumber(w, rs) ==
  [w EXCEPT
     !.frames = [i \in 1..Len(rs) |-> w.frames[rs[i]]],
     !.segs = [i \in DOMAIN w.segs |->
                 [w.segs[i] EXCEPT !.logs = IF @ = 0 THEN 0 ELSE Pos(rs, @)]]]
Collect(w) == Renumber(w, RefSeq(w.segs, 1, <<>>))

\* ------------------------------------------------------------- actions
Now == World(segs, frames, "none")
Segs == DOMAIN segs

\* What the last call was, how it ended and which segment it returned;
\* prev is the call before it.
Call(op, s, arg, w) ==
  [op |-> op, s |-> s, arg |-> arg, err |-> w.err,
   res |-> IF Failed(w) THEN 0 ELSE IF Len(w.segs) > Len(segs) THEN Len(w.segs) ELSE s,
   prev |-> [op |-> last.op, s |-> last.s, err |-> last.err]]

Commit(w, call) ==
  /\ segs' = w.segs
  /\ frames' = w.frames
  /\ nops' = nops + 1
  /\ last' = call
  /\ UNCHANGED <<disk, inputs>>

\* One call: the world it leaves, with the DataFrame objects renumbered.
Do(op, s, arg, w) ==
  /\ nops < inputs.budget
  /\ Len(w.segs) <= MaxSegs
  /\ Commit(Collect(w), Call(op, s, arg, w))

\* seg.load_<attr>()
Load(s, attr) == Do("load", s, [attr |-> attr], load(Now, s, attr))

\* seg[a:b]
Slice(s, a, b) == Do("slice", s, [a |-> a, b |-> b], getitem(Now, s, a, b))

\* seg.copy()
Copy(s) == Do("copy", s, <<>>, copy(Now, s))

\* seg.keep_logs(mnemonics), also seg[mnemonics]
KeepLogs(s, mnemonics) ==
  Do("keep_logs", s, [mnemonics |-> mnemonics], keep_logs(Now, s, mnemonics))

\* seg.drop_logs(mnemonics)
DropLogs(s, mnemonics) ==
  Do("drop_logs", s, [mnemonics |-> mnemonics], drop_logs(Now, s, mnemonics))

\* seg.rename_logs(rename_dict)
RenameLogs(s, rename_dict) ==
  Do("rename_logs", s, [rename_dict |-> rename_dict], rename_logs(Now, s, rename_dict))

\* seg.load_core(pixels_per_cm=...), also the first read of core_dl / core_uv
LoadCore(s, pixels_per_cm) ==
  Do("load_core", s, [pixels_per_cm |-> pixels_per_cm], load_core(Now, s, 0, pixels_per_cm))

\* seg.split_by_core()
SplitByCore(s) == Do("split_by_core", s, <<>>, split_by_core(Now, s))

\* The loop of match_core_logs and what follows it, for every choice of the
\* shifts of best fit.
MatchBest(s, mnemonic, max_shift, w, groups) ==
  \E best \in [DOMAIN groups ->
                 DeltaGrid(max_shift, inputs.delta_from, inputs.delta_to, inputs.delta_step)] :
    Do("match_core_logs", s,
       [mnemonic |-> mnemonic, max_shift |-> max_shift, best |-> best, groups |-> groups],
       match_core_logs(w, s, groups, best))

MatchRead(s, mnemonic, max_shift, w) ==
  MatchBest(s, mnemonic, max_shift, w, match_groups(w, s, max_shift))

\* seg.match_core_logs(mnemonic, max_shift, delta_from, delta_to, delta_step)
MatchCoreLogs(s, mnemonic, max_shift) ==
  MatchRead(s, mnemonic, max_shift, match_reads(Now, s, mnemonic))

\* parse_depth(depth, check_positive)
ParseDepth(depth, check_positive) ==
  /\ nops < inputs.budget
  /\ nops' = nops + 1
  /\ last' = [op |-> "parse_depth", s |-> 0,
              arg |-> [depth |-> depth, check_positive |-> check_positive],
              err |-> parse_depth(depth, check_positive).err,
              res |-> parse_depth(depth, check_positive).val,
              prev |-> [op |-> last.op, s |-> last.s, err |-> last.err]]
  /\ UNCHANGED <<disk, inputs, segs, frames>>

\* ------------------------------------------------------ specifications
Start(d, args) ==
  /\ disk = d
  /\ inputs = args
  /\ \E ppc \in args.ppcs : segs = <<NewSegment(d.meta, 10, ppc)>>
  /\ frames = <<>>
  /\ nops = 0
  /\ last = [op |-> "init", s |-> 1, arg |-> <<>>, err |-> "none", res |-> 1,
             prev |-> [op |-> "none", s |-> 0, err |-> "none"]]

\* The whole interface on the base directory.
Init ==
  Start(DiskBase,
        [budget |-> MaxOps, bounds |-> SliceBounds, ppcs |-> {1, 2},
         mnemonics |-> {<<"GK">>, <<"DT">>},
         rename_dicts |-> {"GK" :> "DT", "NK" :> "GK"},
         max_shifts |-> {1}, delta_from |-> -1, delta_to |-> 1, delta_step |-> 1])

Next ==
  \/ \E s \in Segs, attr \in DepthAttrs \cup FdtdAttrs : Load(s, attr)
  \/ \E s \in Segs, a \in inputs.bounds, b \in inputs.bounds : Slice(s, a, b)
  \/ \E s \in Segs : Copy(s)
  \/ \E s \in Segs, m \in inputs.mnemonics : KeepLogs(s, m)
  \/ \E s \in Segs, m \in inputs.mnemonics : DropLogs(s, m)
  \/ \E s \in Segs, d \in inputs.rename_dicts : RenameLogs(s, d)
  \/ \E s \in Segs, ppc \in {0} \cup inputs.ppcs : LoadCore(s, ppc)
  \/ \E s \in Segs : SplitByCore(s)
  \/ \E s \in Segs, m \in inputs.mnemonics, ms \in inputs.max_shifts :
       MatchCoreLogs(s, m[1], ms)

Spec == Init /\ [][Next]_vars

\* Slicing, loading and the images on the base directory, the segment being
\* the whole of it or its end, where no core was taken.
InitSlice ==
  \E meta \in {[depth_from |-> 0, depth_to |-> MaxDepth],
               [depth_from |-> 5, depth_to |-> MaxDepth]} :
  Start([DiskBase EXCEPT !.meta = meta],
        [budget |-> SliceOps, bounds |-> SliceBounds, ppcs |-> {1, 2},
         mnemonics |-> {}, rename_dicts |-> {},
         max_shifts |-> {}, delta_from |-> 0, delta_to |-> 0, delta_step |-> 1])

NextSlice ==
  \/ \E s \in Segs, attr \in DepthAttrs \cup FdtdAttrs : Load(s, attr)
  \/ \E s \in Segs, a \in inputs.bounds, b \in inputs.bounds : Slice(s, a, b)
  \/ \E s \in Segs : LoadCore(s, 0)

SpecSlice == InitSlice /\ [][NextSlice]_vars

\* Core images: directories that differ in samples.* and in the image files.
WholeCm == {d \in Depths : d % UnitsPerCm = 0}
SampleSpans == {sp \in WholeCm \X WholeCm : sp[1] < sp[2]}
SampleRows ==
  {rows \in UNION {[1..n -> SampleSpans \X BOOLEAN] : n \in 1..MaxSamples} :
     \A i \in 1..(Len(rows) - 1) : rows[i][1][1] <= rows[i + 1][1][1]}
SampleFile(rows) ==
  File("csv", <<"SAMPLE">>,
       [i \in DOMAIN rows |-> Sample(rows[i][1][1], rows[i][1][2], i, rows[i][2])])
DiskCore(meta, rows, dl, uv) ==
  [DiskBase EXCEPT !.meta = meta, !.samples = <<SampleFile(rows)>>,
                   !.samples_dl = dl, !.samples_uv = uv]

InitCore ==
  \E rows \in SampleRows, dl \in SUBSET (1..MaxSamples), uv \in SUBSET (1..MaxSamples),
     meta \in {[depth_from |-> 0, depth_to |-> MaxDepth], [depth_from |-> 2, depth_to |-> 4]} :
    /\ dl \cup uv \subseteq DOMAIN rows
    /\ Start(DiskCore(meta, rows, dl, uv),
             [budget |-> CoreOps, bounds |-> {}, ppcs |-> {1},
              mnemonics |-> {}, rename_dicts |-> {},
              max_shifts |-> {}, delta_from |-> 0, delta_to |-> 0, delta_step |-> 1])

NextCore ==
  \/ \E s \in Segs : Load(s, "samples")
  \/ \E s \in Segs, ppc \in {0, 2} : LoadCore(s, ppc)
  \/ \E s \in Segs : SplitByCore(s)

SpecCore == InitCore /\ [][NextCore]_vars

\* Cropping: the directories of the core images, with slices at whole
\* centimetres after load_core.
InitCrop ==
  \E rows \in SampleRows, dl \in SUBSET (1..MaxSamples), uv \in SUBSET (1..MaxSamples),
     meta \in {[depth_from |-> 0, depth_to |-> MaxDepth], [depth_from |-> 2, depth_to |-> 4]} :
    /\ dl \cup uv \subseteq DOMAIN rows
    /\ Start(DiskCore(meta, rows, dl, uv),
             [budget |-> CropOps, bounds |-> WholeCm, ppcs |-> {1},
              mnemonics |-> {}, rename_dicts |-> {},
              max_shifts |-> {}, delta_from |-> 0, delta_to |-> 0, delta_step |-> 1])

\* The slices are those of segments that hold their images.
NextCrop ==
  \/ \E s \in Segs, ppc \in {0, 2} : LoadCore(s, ppc)
  \/ \E s \in Segs, a \in inputs.bounds, b \in inputs.bounds :
       /\ ~IsNone(segs[s].core_dl) /\ ~IsNone(segs[s].core_uv)
       /\ a <= b
       /\ Slice(s, a, b)

SpecCrop == InitCrop /\ [][NextCrop]_vars

\* parse_depth on the strings of up to MaxLen characters over an alphabet
\* that writes signs, points, exponents and units, on ints and on a float.
Strings ==
  {[type |-> "str", val |-> str] :
     str \in UNION {[1..n -> {"1", "5", ".", "-", "e", "m", "c"}] : n \in 0..MaxLen}}
Numbers == {PyInt(v) : v \in {-1, 0, 1, 5}} \cup {PyFloat}
InitParse ==
  Start(DiskBase,
        [budget |-> ParseOps, bounds |-> {}, ppcs |-> {1},
         mnemonics |-> {}, rename_dicts |-> {},
         max_shifts |-> {}, delta_from |-> 0, delta_to |-> 0, delta_step |-> 1])
NextParse ==
  \/ \E depth \in Strings, check_positive \in BOOLEAN :
       ParseDepth(depth, check_positive)
  \/ \E depth \in Numbers, check_positive \in BOOLEAN :
       ParseDepth(depth, check_positive)
SpecParse == InitParse /\ [][NextParse]_vars

\* Matching: two runs of boring intervals, lithology intervals inside and
\* outside them, core rows inside and outside the lithology intervals.
DiskMatch ==
  [DiskBase EXCEPT
     !.meta = [depth_from |-> 0, depth_to |-> 12],
     !.logs = <<File("las", <<"GK", "NK">>, [i \in 1..13 |-> Row(i - 1)])>>,
     !.core_logs = <<File("csv", <<"GK">>,
                          <<Row(1), Row(3), Row(5), Row(7), Row(8), Row(9), Row(11)>>)>>,
     !.core_properties = <<File("csv", <<"PORO">>, <<Row(2), Row(4), Row(9)>>)>>,
     !.boring_intervals = <<File("csv", <<"RECOVERY">>, <<Iv(0, 4), Iv(8, 12)>>)>>,
     !.core_lithology = <<File("csv", <<"ROCK">>,
                               <<Iv(0, 2), Iv(2, 4), Iv(5, 6), Iv(8, 10), Iv(10, 12)>>)>>]

InitMatch ==
  Start(DiskMatch,
        [budget |-> MatchOps, bounds |-> {}, ppcs |-> {1},
         mnemonics |-> {<<"GK">>}, rename_dicts |-> {},
         max_shifts |-> {1, 2}, delta_from |-> -1, delta_to |-> 1, delta_step |-> 1])

NextMatch ==
  \/ \E s \in Segs, attr \in {"core_logs", "core_properties"} : Load(s, attr)
  \/ \E s \in Segs, m \in inputs.mnemonics, ms \in inputs.max_shifts :
       MatchCoreLogs(s, m[1], ms)

SpecMatch == InitMatch /\ [][NextMatch]_vars

\* Grouping: directories whose boring intervals, each one unit long, lie at
\* the gaps of a sequence of gaps.
GapSet == {0, 5, 11, 12}
GapSeqs == UNION {[1..n -> GapSet] : n \in 0..MaxGaps}
RECURSIVE IntervalsAt(_, _, _)
IntervalsAt(gaps, i, from) ==
  IF i > Len(gaps) THEN <<Iv(from, from + 1)>>
  ELSE <<Iv(from, from + 1)>> \o IntervalsAt(gaps, i + 1, from + 1 + gaps[i])
DiskGroup(gaps) ==
  [DiskBase EXCEPT
     !.meta = [depth_from |-> 0, depth_to |-> 13 * (MaxGaps + 1)],
     !.boring_intervals = <<File("csv", <<"RECOVERY">>, IntervalsAt(gaps, 1, 0))>>,
     !.core_lithology = <<File("csv", <<"ROCK">>, IntervalsAt(gaps, 1, 0))>>]

InitGroup ==
  \E gaps \in GapSeqs :
    Start(DiskGroup(gaps),
          [budget |-> GroupOps, bounds |-> {}, ppcs |-> {1},
           mnemonics |-> {<<"GK">>}, rename_dicts |-> {},
           max_shifts |-> {5, 6}, delta_from |-> 0, delta_to |-> 0, delta_step |-> 1])

NextGroup ==
  \E s \in Segs, m \in inputs.mnemonics, ms \in inputs.max_shifts :
    MatchCoreLogs(s, m[1], ms)

SpecGroup == InitGroup /\ [][NextGroup]_vars

\* ============================================================== claims
Loaded(s, attr) == ~IsNone(Cached(Now, s, attr))
RowsOf(s, attr) == Rows(attr, Val(Cached(Now, s, attr)))
Sorted(rows) == MonoInc(rows) \/ MonoDec(rows)
\* a loaded interval-indexed dataset of segment s has no row left
EmptyLoaded(s) == \E attr \in FdtdAttrs : Loaded(s, attr) /\ Len(RowsOf(s, attr)) = 0
SortedLoaded(s) == \A attr \in DepthAttrs : Loaded(s, attr) => Sorted(RowsOf(s, attr))
InRange(s, a, b) ==
  segs[s].depth_from <= a /\ a <= b /\ b <= segs[s].depth_to
Stepped(op) == nops' = nops + 1 /\ last'.op = op

\* C10 as stated: S[new_from:new_to] returns a Segment only when
\* S.depth_from <= new_from <= new_to <= S.depth_to, and fails for any other
\* bounds.
C10_SliceValidates ==
  (last.op = "slice" /\ last.err = "none") => InRange(last.s, last.arg.a, last.arg.b)

\* C10 as amended: slicing makes no range check.  Whatever the bounds, in
\* or out of the range of S and in either order, S[new_from:new_to] returns
\* a new Segment with exactly these bounds; the one failure, when every
\* loaded depth index is sorted, is the ValueError of the interval filter on
\* a loaded interval-indexed dataset of S that has no row, and then no
\* Segment is returned and nothing changes.
C10_SliceUnchecked ==
  [][(Stepped("slice") /\ SortedLoaded(last'.s)) =>
       IF EmptyLoaded(last'.s)
         THEN last'.err = "ValueError" /\ last'.res = 0 /\ segs' = segs /\ frames' = frames
         ELSE /\ last'.err = "none"
              /\ Len(segs') = Len(segs) + 1
              /\ last'.res = Len(segs')
              /\ segs'[last'.res].depth_from = last'.arg.a
              /\ segs'[last'.res].depth_to = last'.arg.b]_vars

\* a slice outside the range of the Segment it was taken from has returned
C10_OutOfRangeSliced ==
  /\ last.op = "slice" /\ last.err = "none"
  /\ ~InRange(last.s, last.arg.a, last.arg.b)
  /\ segs[last.res].depth_from = last.arg.a
  /\ segs[last.res].depth_to = last.arg.b

\* a slice of a Segment with an empty interval-indexed dataset has failed
C10_EmptySliced ==
  /\ last.op = "slice" /\ last.err = "ValueError"
  /\ EmptyLoaded(last.s)

\* ---------------------------------------------------------------- C2
\* the interval [r.from, r.to) and [depth_from, depth_to) share a depth
Overlaps(r, depth_from, depth_to) == Max(r.from, depth_from) < Min(r.to, depth_to)
RangeKept(s) ==
  /\ \A attr \in DepthAttrs : Loaded(s, attr) =>
       \A i \in DOMAIN RowsOf(s, attr) :
         /\ segs[s].depth_from <= RowsOf(s, attr)[i].depth
         /\ RowsOf(s, attr)[i].depth < segs[s].depth_to
  /\ \A attr \in FdtdAttrs : Loaded(s, attr) =>
       \A i \in DOMAIN RowsOf(s, attr) :
         Overlaps(RowsOf(s, attr)[i], segs[s].depth_from, segs[s].depth_to)

\* C2: after a load or a slice that returns, every row of a depth-indexed
\* dataset of the Segment returned has depth_from <= depth < depth_to, and
\* every row of an interval-indexed dataset overlaps [depth_from, depth_to).
C2_FilterRange ==
  (last.op \in {"load", "slice"} /\ last.err = "none") => RangeKept(last.res)

\* ---------------------------------------------------------------- C1
AllAttrs == attrs_depth_index \o attrs_fdtd_index
RECURSIVE ReadAll(_, _, _)
ReadAll(w, r, i) ==
  IF i > Len(AllAttrs) THEN w ELSE ReadAll(prop(w, r, AllAttrs[i]), r, i + 1)
\* What a caller sees of segment r: its bounds, every dataset read through
\* its property, and the image buffers it holds.
Seen(w, r) ==
  [depth_from |-> w.segs[r].depth_from, depth_to |-> w.segs[r].depth_to,
   data |-> [attr \in DepthAttrs \cup FdtdAttrs |-> Rows(attr, Val(Cached(w, r, attr)))],
   core_dl |-> w.segs[r].core_dl, core_uv |-> w.segs[r].core_uv]
Outcome(w) ==
  IF Failed(w) THEN [err |-> w.err]
  ELSE [err |-> "none", seen |-> Seen(ReadAll(w, Len(w.segs), 1), Len(w.segs))]
\* S[a:b], then a read of the dataset mid ("" for none), then [c:d]
SlicedTwice(s, a, b, mid, c, d) ==
  LET w1 == getitem(Now, s, a, b)
      r == Len(segs) + 1
      w2 == IF mid = "" THEN w1 ELSE prop(w1, r, mid)
  IN  getitem(w2, r, c, d)

\* C1: for every Segment S and whole-centimetre bounds
\* S.depth_from <= a <= c <= d <= b <= S.depth_to, S[a:b][c:d] has the bounds,
\* the rows of every dataset and the image buffers of S[c:d], whichever
\* datasets and images S holds and whichever dataset is read in between.
C1_SliceComposes ==
  \A s \in Segs, a \in WholeCm, b \in WholeCm, c \in WholeCm, d \in WholeCm :
    (InRange(s, a, b) /\ a <= c /\ c <= d /\ d <= b) =>
      \A mid \in {""} \cup DepthAttrs \cup FdtdAttrs :
        Outcome(SlicedTwice(s, a, b, mid, c, d)) = Outcome(getitem(Now, s, c, d))

\* ---------------------------------------------------------------- C4
\* What segment t holds, the DataFrame behind _logs included.
Held(sg, fr, t) ==
  [seg |-> [sg[t] EXCEPT !.logs = 0],
   logs |-> IF sg[t].logs = 0 THEN None ELSE Some(fr[sg[t].logs])]
Derives == {"slice", "copy", "keep_logs", "drop_logs"}

\* C4: no call changes what another Segment holds, and a call that derives
\* a new Segment (slice, copy, keep_logs, drop_logs) does not change the
\* Segment it is made on either.
C4_NoSharing ==
  [][nops' = nops + 1 =>
       \A t \in Segs :
         (t # last'.s \/ last'.op \in Derives) =>
           Held(segs', frames', t) = Held(segs, frames, t)]_vars

\* a call on a copy has changed the columns of the logs of the original
C4_Shared ==
  /\ last.op \in {"drop_logs", "rename_logs"} /\ last.err = "none"
  /\ \E t \in Segs : t # last.s /\ t # last.res /\ segs[t].logs = segs[last.s].logs
                     /\ segs[t].logs # 0

\* ------------------------------------------------------------ matching
CoreAttrs == {"core_logs", "core_properties"}
\* the rows of attr a call on segment s reads: the dataset is loaded on
\* first access
Reads(s, attr) == Rows(attr, Val(Cached(prop(Now, s, attr), s, attr)))
Covers(rec, depth) == depth >= rec.from /\ depth < rec.to
Hits(recs, depth) == {j \in DOMAIN recs : Covers(recs[j], depth)}
Copies(rows, orig) == {k \in DOMAIN rows : rows[k].orig = orig}
MatchedNow == Stepped("match_core_logs") /\ last'.err = "none"
\* after the step: the shift records and the rows of attr of the segment
RecordsAfter == Val(segs'[last'.s].core_lithology_deltas)
RowsAfter(attr) == Val(segs'[last'.s][attr]).rows
\* row is present once after the step, at depth
OnceAt(attr, row, depth) ==
  \E k \in DOMAIN RowsAfter(attr) :
    /\ Copies(RowsAfter(attr), row.orig) = {k}
    /\ RowsAfter(attr)[k].depth = depth

\* C3 as stated: after match_core_logs a row of core_logs or core_properties
\* whose depth lies in [DEPTH_FROM, DEPTH_TO) of an interval with a shift is
\* present once, at depth + delta, and a row that no lithology interval
\* covers is still present, at the depth it had.
C3_UncoveredKept ==
  [][MatchedNow =>
       \A attr \in CoreAttrs : \A i \in DOMAIN Reads(last'.s, attr) :
         /\ \A j \in Hits(RecordsAfter, Reads(last'.s, attr)[i].depth) :
              OnceAt(attr, Reads(last'.s, attr)[i],
                     Reads(last'.s, attr)[i].depth + RecordsAfter[j].delta)
         /\ Hits(Val(segs'[last'.s].core_lithology), Reads(last'.s, attr)[i].depth) = {}
              => OnceAt(attr, Reads(last'.s, attr)[i], Reads(last'.s, attr)[i].depth)]_vars

\* C3 as amended: after match_core_logs a row of core_logs or
\* core_properties whose depth lies in [DEPTH_FROM, DEPTH_TO) of exactly one
\* interval with a shift is present once, at depth + delta, and a row that
\* no interval with a shift covers is no longer in the dataset.
C3_UncoveredDropped ==
  [][MatchedNow =>
       \A attr \in CoreAttrs : \A i \in DOMAIN Reads(last'.s, attr) :
         /\ \A j \in Hits(RecordsAfter, Reads(last'.s, attr)[i].depth) :
              Hits(RecordsAfter, Reads(last'.s, attr)[i].depth) = {j}
                => OnceAt(attr, Reads(last'.s, attr)[i],
                          Reads(last'.s, attr)[i].depth + RecordsAfter[j].delta)
         /\ Hits(RecordsAfter, Reads(last'.s, attr)[i].depth) = {}
              => Copies(RowsAfter(attr), Reads(last'.s, attr)[i].orig) = {}]_vars

\* C3 witness: a first match has moved a row of core_logs and has dropped the
\* row of the file at depth 7, which no lithology interval covers.
C3_ShiftedAndDropped ==
  /\ last.op = "match_core_logs" /\ last.err = "none"
  /\ last.prev.op # "match_core_logs"
  /\ \E i \in DOMAIN RowsOf(last.s, "core_logs") :
       RowsOf(last.s, "core_logs")[i].depth # RowsOf(last.s, "core_logs")[i].orig
  /\ \E i \in DOMAIN disk.core_logs[1].rows : disk.core_logs[1].rows[i].orig = 7
  /\ Copies(RowsOf(last.s, "core_logs"), 7) = {}

IsMatched(sg, s) == ~IsNone(sg[s].core_lithology_deltas)

\* C9: a segment becomes matched by a successful match_core_logs and by
\* nothing else; match_core_logs on a matched segment is accepted and shifts
\* the depths the first match has left, so a row that the first match moved
\* by delta_first and that the second match keeps ends at
\* orig + delta_first + delta_second.
C9_NoGuard ==
  [][/\ MatchedNow => IsMatched(segs', last'.s)
     /\ \A s \in Segs : (~IsMatched(segs, s) /\ IsMatched(segs', s)) =>
          (Stepped("match_core_logs") /\ last'.s = s)
     /\ (Stepped("match_core_logs") /\ IsMatched(segs, last'.s)) =>
          /\ last'.err = "none"
          /\ \A attr \in CoreAttrs : \A i \in DOMAIN RowsOf(last'.s, attr) :
               \A j1 \in DOMAIN Val(segs[last'.s].core_lithology_deltas) :
                 \A j2 \in Hits(RecordsAfter, RowsOf(last'.s, attr)[i].depth) :
                   (/\ Covers(Val(segs[last'.s].core_lithology_deltas)[j1],
                              RowsOf(last'.s, attr)[i].orig)
                    /\ RowsOf(last'.s, attr)[i].depth =
                         RowsOf(last'.s, attr)[i].orig
                           + Val(segs[last'.s].core_lithology_deltas)[j1].delta)
                   => OnceAt(attr, RowsOf(last'.s, attr)[i],
                             RowsOf(last'.s, attr)[i].orig
                               + Val(segs[last'.s].core_lithology_deltas)[j1].delta
                               + RecordsAfter[j2].delta)]_vars

\* C9 witness: two matches in a row have succeeded on a segment, each with
\* the shift 1, and a row of core_logs stands two units below its depth in
\* the file.
C9_ShiftedTwice ==
  /\ last.op = "match_core_logs" /\ last.err = "none"
  /\ last.prev.op = "match_core_logs" /\ last.prev.err = "none" /\ last.prev.s = last.s
  /\ \E i \in DOMAIN RowsOf(last.s, "core_logs") :
       RowsOf(last.s, "core_logs")[i].depth = RowsOf(last.s, "core_logs")[i].orig + 2

\* ------------------------------------------------------------ grouping
Gap(a, b) == b.from - a.to

\* C8: the groups match_core_logs works on are the boring intervals in their
\* order, each in one group; inside a group every interval starts at most
\* 2 * max_shift after the end of the one before, and a group starts where
\* the gap is greater than 2 * max_shift.
C8_MaximalRuns ==
  (last.op = "match_core_logs" /\ Loaded(last.s, "boring_intervals")
     /\ last.err \notin {"KeyError", "FileNotFoundError", "OSError"}) =>
    /\ Flatten(last.arg.groups, 1) = RowsOf(last.s, "boring_intervals")
    /\ \A g \in DOMAIN last.arg.groups :
         /\ Len(last.arg.groups[g]) > 0
         /\ \A i \in 1..(Len(last.arg.groups[g]) - 1) :
              Gap(last.arg.groups[g][i], last.arg.groups[g][i + 1])
                <= 2 * last.arg.max_shift
    /\ \A g \in 1..(Len(last.arg.groups) - 1) :
         Gap(last.arg.groups[g][Len(last.arg.groups[g])], last.arg.groups[g + 1][1])
           > 2 * last.arg.max_shift

\* C8 witness: intervals with the gaps 5, 0 and 12 and max_shift 5, a
\* threshold of 10, have given two groups, of three intervals and of one.
C8_TwoGroups ==
  /\ last.op = "match_core_logs" /\ last.arg.max_shift = 5
  /\ disk.boring_intervals[1].rows = IntervalsAt(<<5, 0, 12>>, 1, 0)
  /\ Len(last.arg.groups) = 2
  /\ Len(last.arg.groups[1]) = 3 /\ Len(last.arg.groups[2]) = 1

\* --------------------------------------------------------- core images
\* the rows of samples.* that segment s sees, and the pixel of a depth of
\* whole centimetres
SamplesOf(s) ==
  SelectSeq(disk.samples[1].rows,
            LAMBDA r : r.from < segs[s].depth_to /\ segs[s].depth_from < r.to)
Px(s, units) == (units \div UnitsPerCm) * segs[s].pixels_per_cm
Disjoint(samples) ==
  \A i \in DOMAIN samples, j \in DOMAIN samples : i < j => samples[i].to <= samples[j].from
HasDl(sample) == sample.id \in disk.samples_dl
HasUv(sample) == sample.id \in disk.samples_uv
\* pixel row p of the buffers of s lies in the part of sample inside s
Placed(s, sample, p) ==
  /\ p > Px(s, Max(sample.from, segs[s].depth_from) - segs[s].depth_from)
  /\ p <= Px(s, Min(sample.to, segs[s].depth_to) - segs[s].depth_from)
\* the row of sample's image of modality mod, resized to the sample's height,
\* that belongs at pixel row p
ImageRow(s, sample, mod, p) ==
  [img |-> sample.id, mod |-> mod, h |-> Px(s, sample.to - sample.from),
   k |-> p - Px(s, Max(sample.from, segs[s].depth_from) - segs[s].depth_from)
           + Px(s, Max(sample.from, segs[s].depth_from) - sample.from)]
Registered(s, mod, p) ==
  IF \E i \in DOMAIN SamplesOf(s) : Placed(s, SamplesOf(s)[i], p)
    THEN ImageRow(s, SamplesOf(s)[CHOOSE i \in DOMAIN SamplesOf(s) :
                                    Placed(s, SamplesOf(s)[i], p)], mod, p)
    ELSE NanRow
BufferRows(s, mod) ==
  IF mod = "dl" THEN Val(segs[s].core_dl).rows ELSE Val(segs[s].core_uv).rows

\* C5: after load_core on a segment whose samples do not overlap and have
\* both images, each buffer is as high as the segment, every pixel row inside
\* a sample's part of the segment is the row of that sample's resized image
\* that belongs there, and every other pixel row is the missing sentinel.
C5_Registration ==
  (/\ last.op = "load_core" /\ last.err = "none"
   /\ Disjoint(SamplesOf(last.s))
   /\ \A i \in DOMAIN SamplesOf(last.s) :
        HasDl(SamplesOf(last.s)[i]) /\ HasUv(SamplesOf(last.s)[i])) =>
    \A mod \in {"dl", "uv"} :
      BufferRows(last.s, mod) =
        [p \in 1..Px(last.s, segs[last.s].depth_to - segs[last.s].depth_from) |->
           Registered(last.s, mod, p)]

\* C6: when every sample has an image and some sample has the image of one
\* modality only, load_core completes, the two buffers have one shape, and
\* in the rows of such a sample the modality without an image holds the
\* missing sentinel and the other one the sample's image.  (Stated for
\* samples named with an extension.)
C6_OneModality ==
  (/\ last.op = "load_core"
   /\ Disjoint(SamplesOf(last.s))
   /\ \A i \in DOMAIN SamplesOf(last.s) :
        /\ SamplesOf(last.s)[i].ext
        /\ HasDl(SamplesOf(last.s)[i]) \/ HasUv(SamplesOf(last.s)[i])
   /\ \E i \in DOMAIN SamplesOf(last.s) :
        ~(HasDl(SamplesOf(last.s)[i]) /\ HasUv(SamplesOf(last.s)[i]))) =>
    /\ last.err = "none"
    /\ Len(BufferRows(last.s, "dl")) = Len(BufferRows(last.s, "uv"))
    /\ Val(segs[last.s].core_dl).w = Val(segs[last.s].core_uv).w
    /\ \A i \in DOMAIN SamplesOf(last.s) : \A p \in DOMAIN BufferRows(last.s, "dl") :
         Placed(last.s, SamplesOf(last.s)[i], p) =>
           /\ BufferRows(last.s, "dl")[p] =
                IF HasDl(SamplesOf(last.s)[i])
                  THEN ImageRow(last.s, SamplesOf(last.s)[i], "dl", p) ELSE NanRow
           /\ BufferRows(last.s, "uv")[p] =
                IF HasUv(SamplesOf(last.s)[i])
                  THEN ImageRow(last.s, SamplesOf(last.s)[i], "uv", p) ELSE NanRow

\* C7: when two samples of the segment overlap in depth, load_core and
\* split_by_core raise an error and the segment holds no image buffer
\* afterwards.  (Stated for samples whose images all exist, named with an
\* extension, so that nothing else makes the operation fail.)
C7_OverlapRejected ==
  (/\ last.op \in {"load_core", "split_by_core"}
   /\ ~Disjoint(SamplesOf(last.s))
   /\ \A i \in DOMAIN SamplesOf(last.s) :
        /\ SamplesOf(last.s)[i].ext
        /\ HasDl(SamplesOf(last.s)[i]) /\ HasUv(SamplesOf(last.s)[i])) =>
    /\ last.err # "none"
    /\ IsNone(segs[last.s].core_dl) /\ IsNone(segs[last.s].core_uv)

\* ------------------------------------------------------------ cropping
HasImages(s) == ~IsNone(segs[s].core_dl) /\ ~IsNone(segs[s].core_uv)
\* load_core from scratch on a segment of the same directory with the
\* bounds a and b and the width and resolution of s
Rebuilt(s, a, b) ==
  load_core(World(<<NewSegment([depth_from |-> a, depth_to |-> b],
                               segs[s].core_width, segs[s].pixels_per_cm)>>,
                  <<>>, "none"),
            1, 0, 0)

\* C11: a slice S[a:b] at whole centimetres inside the range of a segment S
\* that holds its image buffers returns a segment whose buffers are
\* (b - a) * pixels_per_cm rows high and equal, row for row, the buffers
\* load_core builds on a segment with the bounds a and b.
C11_CropIsRebuild ==
  [][(/\ Stepped("slice") /\ HasImages(last'.s)
      /\ last'.arg.a \in WholeCm /\ last'.arg.b \in WholeCm
      /\ InRange(last'.s, last'.arg.a, last'.arg.b)) =>
       /\ last'.err = "none"
       /\ ~Failed(Rebuilt(last'.s, last'.arg.a, last'.arg.b))
       /\ Len(Val(segs'[last'.res].core_dl).rows)
            = Px(last'.s, last'.arg.b - last'.arg.a)
       /\ segs'[last'.res].core_dl
            = Rebuilt(last'.s, last'.arg.a, last'.arg.b).segs[1].core_dl
       /\ segs'[last'.res].core_uv
            = Rebuilt(last'.s, last'.arg.a, last'.arg.b).segs[1].core_uv]_vars

\* -------------------------------------------------------- lazy loading
\* the rows of attr read for the first time in the segment a slice has just
\* returned, and the rows of attr in the slice of the same segment with attr
\* loaded before
LazyRead(attr) == prop(World(segs', frames', "none"), last'.res, attr)
EagerSlice(attr) ==
  getitem(prop(Now, last'.s, attr), last'.s, last'.arg.a, last'.arg.b)
RowsIn(w, r, attr) == Rows(attr, Val(Cached(w, r, attr)))

\* C12: a read of a dataset a segment holds loads nothing; a slice inside
\* the range of S leaves a dataset that S has not loaded unloaded in the new
\* segment, and its first read there gives the rows that the slice of S
\* with the dataset loaded gives.
C12_LazyLoading ==
  [][/\ \A s \in Segs, attr \in DepthAttrs \cup FdtdAttrs :
          Loaded(s, attr) => prop(Now, s, attr) = Now
     /\ (/\ Stepped("slice") /\ last'.err = "none"
         /\ InRange(last'.s, last'.arg.a, last'.arg.b)) =>
          \A attr \in DepthAttrs \cup FdtdAttrs :
            ~Loaded(last'.s, attr) =>
              /\ IsNone(Cached(World(segs', frames', "none"), last'.res, attr))
              /\ ~Failed(LazyRead(attr))
              /\ ~Failed(EagerSlice(attr))
              /\ RowsIn(LazyRead(attr), last'.res, attr)
                   = RowsIn(EagerSlice(attr), Len(EagerSlice(attr).segs), attr)]_vars

\* C13: parse_depth returns an integer number of centimetres or raises.  A
\* string fails when it does not match the grammar, when its units are not
\* units of length, when its value in centimetres is not whole, and, with
\* check_positive, when that value is <= 0; a value that is not a string
\* fails when it is not an int and, with check_positive, when it is <= 0.
\* In every other case the call returns the value in centimetres, an int
\* unchanged.  The value in centimetres is the ratio CmNum / CmDen.
CmNum(g, factor) == (IF g.neg THEN -1 ELSE 1) * value_num(g) * factor.num
CmDen(g, factor) == value_den(g) * factor.den
Raised == last.err # "none"
Returned(v) == last.err = "none" /\ last.res = PyInt(v)
WholeOrRaised(n, d, check_positive) ==
  IF n % d # 0 \/ (check_positive /\ n <= 0) THEN Raised ELSE Returned(n \div d)
ParsedAs(depth, check_positive) ==
  IF depth.type = "str"
    THEN IF IsNone(fullmatch(depth.val)) THEN Raised
         ELSE IF IsNone(to_cm(Val(fullmatch(depth.val)).units)) THEN Raised
         ELSE WholeOrRaised(CmNum(Val(fullmatch(depth.val)),
                                  Val(to_cm(Val(fullmatch(depth.val)).units))),
                            CmDen(Val(fullmatch(depth.val)),
                                  Val(to_cm(Val(fullmatch(depth.val)).units))),
                            check_positive)
  ELSE IF depth.type # "int" \/ (check_positive /\ depth.val <= 0) THEN Raised
  ELSE Returned(depth.val)
C13_WholeCmParsed ==
  last.op = "parse_depth" => ParsedAs(last.arg.depth, last.arg.check_positive)

====
